---- MODULE Spec2Model ----
(***************************************************************************)
(* Model of fix_ente_timestamps.py: the Ente-export timestamp fixer.       *)
(*                                                                         *)
(* File names are sequences of one-character strings, so that suffix,      *)
(* stem and lower-casing are computed the way pathlib and str compute      *)
(* them.  The external tool (exiftool), the file system and the JSON       *)
(* sidecars are the environment: what they return is chosen with \E at the *)
(* step that reads them.                                                   *)
(***************************************************************************)
EXTENDS Integers, Sequences, FiniteSets, TLC

(***************************************************************************)
(* Strings                                                                 *)
(***************************************************************************)
UpperChars == <<"A","B","C","D","E","F","G","H","I","J","K","L","M",
                "N","O","P","Q","R","S","T","U","V","W","X","Y","Z">>

LowerChars == <<"a","b","c","d","e","f","g","h","i","j","k","l","m",
                "n","o","p","q","r","s","t","u","v","w","x","y","z">>

\* str.lower() on one character
LowerChar(c) ==
    IF \E k \in 1..Len(UpperChars) : UpperChars[k] = c
    THEN LowerChars[CHOOSE k \in 1..Len(UpperChars) : UpperChars[k] = c]
    ELSE c

\* str.lower()
Lower(s) == [k \in 1..Len(s) |-> LowerChar(s[k])]

\* str.rfind("."), 1-based; 0 when there is no dot
RFindDot(s) ==
    IF \E k \in 1..Len(s) : s[k] = "."
    THEN CHOOSE k \in 1..Len(s) :
            /\ s[k] = "."
            /\ \A m \in (k+1)..Len(s) : s[m] # "."
    ELSE 0

\* PurePath.suffix: from the last dot, unless the dot is first or last
Suffix(name) ==
    LET d == RFindDot(name)
    IN  IF d > 1 /\ d < Len(name) THEN SubSeq(name, d, Len(name)) ELSE <<>>

\* PurePath.stem
Stem(name) ==
    LET d == RFindDot(name)
    IN  IF d > 1 /\ d < Len(name) THEN SubSeq(name, 1, d - 1) ELSE name

\* Python's None, where the other values are character sequences
None == <<"None">>

\* dict.get(key) with None as the default
DictGet(d, key) == IF key \in DOMAIN d THEN d[key] ELSE None

(***************************************************************************)
(* Tables                                                                  *)
(***************************************************************************)
FILETYPE_TO_EXT ==
    [ JPEG      |-> <<".","j","p","g">>,
      PNG       |-> <<".","p","n","g">>,
      GIF       |-> <<".","g","i","f">>,
      WEBP      |-> <<".","w","e","b","p">>,
      HEIC      |-> <<".","h","e","i","c">>,
      HEIF      |-> <<".","h","e","i","c">>,
      MP4       |-> <<".","m","p","4">>,
      MOV       |-> <<".","m","o","v">>,
      QuickTime |-> <<".","m","o","v">>,
      AVI       |-> <<".","a","v","i">>,
      WEBM      |-> <<".","w","e","b","m">>,
      MKV       |-> <<".","m","k","v">>,
      TIFF      |-> <<".","t","i","f","f">>,
      BMP       |-> <<".","b","m","p">>,
      CR2       |-> <<".","c","r","2">>,
      NEF       |-> <<".","n","e","f">>,
      ARW       |-> <<".","a","r","w">>,
      DNG       |-> <<".","d","n","g">>,
      RAF       |-> <<".","r","a","f">>,
      ORF       |-> <<".","o","r","f">>,
      RW2       |-> <<".","r","w","2">> ]

EXT_ALIASES ==
    (<<".","j","p","e","g">> :> <<".","j","p","g">>) @@
    (<<".","j","p","e">>     :> <<".","j","p","g">>) @@
    (<<".","m","4","v">>     :> <<".","m","p","4">>) @@
    (<<".","h","e","i","f">> :> <<".","h","e","i","c">>) @@
    (<<".","t","i","f">>     :> <<".","t","i","f","f">>)

\* EXT_ALIASES.get(ext, ext)
AliasGet(ext) == IF ext \in DOMAIN EXT_ALIASES THEN EXT_ALIASES[ext] ELSE ext

(***************************************************************************)
(* get_corrected_filename                                                  *)
(***************************************************************************)
\* variant that compares the raw extensions, without EXT_ALIASES
get_corrected_filename_noalias(name, detected_ext) ==
    IF detected_ext = None
    THEN [name |-> name, corrected |-> FALSE]
    ELSE IF Lower(Suffix(name)) = detected_ext
         THEN [name |-> name, corrected |-> FALSE]
         ELSE [name |-> Stem(name) \o detected_ext, corrected |-> TRUE]

get_corrected_filename(name, detected_ext) ==
    IF detected_ext = None
    THEN [name |-> name, corrected |-> FALSE]
    ELSE LET current_ext         == Lower(Suffix(name))
             normalized_current  == AliasGet(current_ext)
             normalized_detected == AliasGet(detected_ext)
         IN  IF normalized_current = normalized_detected
             THEN [name |-> name, corrected |-> FALSE]
             ELSE [name |-> Stem(name) \o detected_ext, corrected |-> TRUE]

(***************************************************************************)
(* JSON sidecar values and the library conversions parse_timestamp uses    *)
(*                                                                         *)
(* A JSON value is a record with a kind.  Python integers are unbounded,   *)
(* so an integer carries its magnitude class: "small" (n is the value),    *)
(* "beyond_maxyear" (datetime.fromtimestamp raises ValueError: year out of *)
(* range, e.g. a millisecond timestamp) or "beyond_time_t" (it raises      *)
(* OverflowError or OSError).                                              *)
(***************************************************************************)
Small(n) == [mag |-> "small", n |-> n]

BeyondMaxYear == [mag |-> "beyond_maxyear", n |-> 0]

BeyondTimeT == [mag |-> "beyond_time_t", n |-> 0]

\* int(x): the value, or the exception it raises
ToInt(raw) ==
    CASE raw.kind = "int"    -> [tag |-> "ok", v |-> raw.v]
      [] raw.kind = "numstr" -> [tag |-> "ok", v |-> raw.v]
      [] raw.kind = "float"  -> [tag |-> "ok", v |-> raw.v]
      [] raw.kind = "badstr" -> [tag |-> "ValueError"]
      [] raw.kind = "nan"    -> [tag |-> "ValueError"]
      [] raw.kind = "inf"    -> [tag |-> "OverflowError"]
      [] OTHER               -> [tag |-> "TypeError"]

\* days since 1970-01-01 to the civil date (proleptic Gregorian calendar)
CivilFromDays(days) ==
    LET z   == days + 719468
        era == z \div 146097
        doe == z - era * 146097
        yoe == (doe - doe \div 1460 + doe \div 36524 - doe \div 146096) \div 365
        doy == doe - (365 * yoe + yoe \div 4 - yoe \div 100)
        mp  == (5 * doy + 2) \div 153
        d   == doy - (153 * mp + 2) \div 5 + 1
        m   == IF mp < 10 THEN mp + 3 ELSE mp - 9
        y   == yoe + era * 400 + (IF m <= 2 THEN 1 ELSE 0)
    IN  [year |-> y, month |-> m, day |-> d]

\* datetime.fromtimestamp(ts), with the local zone taken to be UTC
fromtimestamp(v) ==
    CASE v.mag = "beyond_maxyear" -> [tag |-> "ValueError"]
      [] v.mag = "beyond_time_t"  -> [tag |-> "OverflowError"]
      [] OTHER ->
            LET days == v.n \div 86400
                secs == v.n % 86400
                c    == CivilFromDays(days)
            IN  [tag |-> "ok",
                 dt  |-> [year |-> c.year, month |-> c.month, day |-> c.day,
                          hour |-> secs \div 3600,
                          minute |-> (secs % 3600) \div 60,
                          second |-> secs % 60]]

\* the body of one try block of parse_timestamp: metadata[key]["timestamp"]
\* converted, "pass" when the exception is caught, "raise" when it is not
TryField(metadata, key) ==
    LET entry == metadata.fields[key]
    IN  IF entry.kind # "dict" THEN [tag |-> "pass"]               \* TypeError
        ELSE IF "timestamp" \notin DOMAIN entry.fields
             THEN [tag |-> "pass"]                                 \* KeyError
             ELSE LET ts == ToInt(entry.fields["timestamp"])
                  IN  CASE ts.tag = "ok" ->
                              LET r == fromtimestamp(ts.v)
                              IN  CASE r.tag = "ok"         -> r
                                    [] r.tag = "ValueError" -> [tag |-> "pass"]
                                    [] OTHER                -> [tag |-> "raise"]
                        [] ts.tag \in {"ValueError", "TypeError"} -> [tag |-> "pass"]
                        [] OTHER -> [tag |-> "raise"]

\* "key in metadata" and the try block behind it: "absent" when the key is
\* not there
FieldResult(metadata, key) ==
    IF metadata.kind = "dict"
    THEN IF key \in DOMAIN metadata.fields
         THEN TryField(metadata, key)
         ELSE [tag |-> "absent"]
    ELSE IF metadata.kind = "list"
         THEN [tag |-> "absent"]
         ELSE [tag |-> "raise"]     \* "in" on a number or null: TypeError

\* variant that tries creationTime first
parse_timestamp_swapped(metadata) ==
    LET c == FieldResult(metadata, "creationTime")
    IN  IF c.tag \in {"ok", "raise"} THEN c
        ELSE LET p == FieldResult(metadata, "photoTakenTime")
             IN  IF p.tag \in {"ok", "raise"} THEN p ELSE [tag |-> "none"]

\* result: [tag |-> "ok", dt |-> ...], [tag |-> "none"] or [tag |-> "raise"]
parse_timestamp(metadata) ==
    LET p == FieldResult(metadata, "photoTakenTime")
    IN  IF p.tag \in {"ok", "raise"} THEN p
        ELSE LET c == FieldResult(metadata, "creationTime")
             IN  IF c.tag \in {"ok", "raise"} THEN c ELSE [tag |-> "none"]

\* strftime("%Y:%m:%d %H:%M:%S"): the six fields in that order
format_exif_datetime(dt) ==
    <<dt.year, dt.month, dt.day, dt.hour, dt.minute, dt.second>>

(***************************************************************************)
(* Bounds and the environment's value pools                                *)
(***************************************************************************)
\* top-level entries of the input directory
MaxAlbums == 1

\* entries of one album directory
MaxItems == 2

\* largest count the tool prints in one summary line
MaxReport == 2

\* sequences of at most n distinct elements of S
SeqsDistinct(S, n) ==
    { q \in UNION { [1..k -> S] : k \in 0..n } :
        \A a, b \in 1..Len(q) : a # b => q[a] # q[b] }

EmptyMap == [x \in {} |-> x]

\* file names that occur in an album directory
MediaNames ==
    { <<"a",".","J","P","E","G">>,
      <<"a",".","p","n","g">> }

MetadataName == <<"m","e","t","a","d","a","t","a">>

DSStoreName == <<".","D","S","_","S","t","o","r","e">>

\* what iterdir() of an album can yield
ItemPool ==
    { [name |-> n, is_dir |-> FALSE] : n \in MediaNames \cup {DSStoreName} }
    \cup { [name |-> MetadataName, is_dir |-> TRUE],
           [name |-> <<"s","u","b">>, is_dir |-> TRUE] }

\* FileType values exiftool reports ("" when it reports none)
FileTypePool == {"JPEG", "PNG", "TXT", ""}

\* timestamps (seconds since the epoch) found in sidecars
TsPool == {86399, 1609459200}

\* the JSON values of a "timestamp" member
RawPool ==
    { [kind |-> k, v |-> Small(t)] : k \in {"int", "numstr", "float"}, t \in TsPool }
    \cup { [kind |-> "int", v |-> BeyondMaxYear],
           [kind |-> "numstr", v |-> BeyondTimeT] }
    \cup { [kind |-> k, v |-> Small(0)] : k \in {"badstr", "nan", "inf", "null"} }

\* the JSON values of a photoTakenTime / creationTime member
EntryPool ==
    { [kind |-> "nondict", fields |-> EmptyMap],
      [kind |-> "dict", fields |-> EmptyMap] }
    \cup { [kind |-> "dict", fields |-> ("timestamp" :> r)] : r \in RawPool }

\* the subsets of the two keys a sidecar object can hold, with their values
MetaFields ==
    UNION { [ks -> EntryPool] : ks \in SUBSET {"photoTakenTime", "creationTime"} }

\* the JSON documents a sidecar can hold
MetaPool ==
    { [kind |-> "dict", fields |-> f] : f \in MetaFields }
    \cup { [kind |-> "list", fields |-> EmptyMap],
           [kind |-> "scalar", fields |-> EmptyMap] }

\* what opening and loading <name>.json can do, given the documents it can
\* hold
Sidecars(docs) ==
    { [state |-> st, metadata |-> [kind |-> "list", fields |-> EmptyMap]] :
        st \in {"missing", "ioerror", "jsonerror", "decodeerror"} }
    \cup { [state |-> "json", metadata |-> m] : m \in docs }

\* the documents the sidecars of a run hold: one of each kind of member
RunEntryPool ==
    { e \in EntryPool :
        \/ e.fields = EmptyMap
        \/ e.fields["timestamp"] \in
              { [kind |-> "int", v |-> Small(86399)],
                [kind |-> "numstr", v |-> Small(1609459200)],
                [kind |-> "int", v |-> BeyondMaxYear],
                [kind |-> "numstr", v |-> BeyondTimeT],
                [kind |-> "badstr", v |-> Small(0)] } }

RunMetaPool ==
    { m \in MetaPool :
        \A k \in DOMAIN m.fields : m.fields[k] \in RunEntryPool }

SidecarPool == Sidecars(RunMetaPool)

(***************************************************************************)
(* batch_detect_file_types                                                 *)
(***************************************************************************)
\* what the detection subprocess can answer for `files`: no usable output,
\* or a JSON list with one item per file
DetectRuns(files) ==
    { [ok |-> FALSE, data |-> <<>>] }
    \cup { [ok |-> TRUE,
            data |-> [k \in 1..Len(files) |->
                        [FileName |-> files[k], FileType |-> t[k]]]] :
           t \in [1..Len(files) -> FileTypePool] }

\* the type_map built from the tool's answer ({} when it failed)
batch_detect_file_types(files, run) ==
    IF files = <<>> \/ ~run.ok
    THEN EmptyMap
    ELSE [n \in {run.data[k].FileName : k \in 1..Len(run.data)} |->
            LET last == CHOOSE k \in 1..Len(run.data) :
                            /\ run.data[k].FileName = n
                            /\ \A m \in (k+1)..Len(run.data) :
                                   run.data[m].FileName # n
            IN  DictGet(FILETYPE_TO_EXT, run.data[last].FileType)]

(***************************************************************************)
(* batch_set_timestamps                                                    *)
(***************************************************************************)
NoDt == <<>>

NoPath == [root |-> "", name |-> <<>>]

ArgLine(text, dt, path) == [text |-> text, dt |-> dt, path |-> path]

\* the seven argfile lines of one file
ArgBlock(path, dt) ==
    LET exif_dt == format_exif_datetime(dt)
    IN  << ArgLine("-overwrite_original", NoDt, NoPath),
           ArgLine("-DateTimeOriginal=", exif_dt, NoPath),
           ArgLine("-CreateDate=", exif_dt, NoPath),
           ArgLine("-FileModifyDate=", exif_dt, NoPath),
           ArgLine("-FileCreateDate=", exif_dt, NoPath),
           ArgLine("file", NoDt, path),
           ArgLine("-execute", NoDt, NoPath) >>

RECURSIVE argfile_lines(_)
argfile_lines(files_and_times) ==
    IF files_and_times = <<>> THEN <<>>
    ELSE ArgBlock(Head(files_and_times).path, Head(files_and_times).dt)
         \o argfile_lines(Tail(files_and_times))

\* one line of the tool's stdout: its first token and the rest
OutLine(numeric, n, text) == [numeric |-> numeric, n |-> n, text |-> text]

\* what the tool can print and do for one -execute block
BlockOutcomes ==
    { [written |-> TRUE,  confirmed |-> TRUE,
       lines |-> << OutLine(TRUE, 1, "image files updated") >>],
      [written |-> FALSE, confirmed |-> TRUE,
       lines |-> << OutLine(TRUE, 1, "image files unchanged") >>],
      [written |-> FALSE, confirmed |-> FALSE,
       lines |-> << OutLine(TRUE, 0, "image files updated"),
                    OutLine(TRUE, 1, "files weren't updated due to errors") >>],
      [written |-> FALSE, confirmed |-> FALSE,
       lines |-> << OutLine(FALSE, 0, "image files updated") >>],
      [written |-> FALSE, confirmed |-> FALSE, lines |-> << >>] }
    \cup
    \* the path is a directory: every file in it is processed
    { [written |-> TRUE, confirmed |-> TRUE,
       lines |-> << OutLine(TRUE, 1, "directories scanned"),
                    OutLine(TRUE, k, "image files updated") >>] :
        k \in 2..MaxReport }

\* what running the tool on a batch of n files can do: an exception before
\* the subprocess starts (the argfile cannot be written), FileNotFoundError
\* (no such program), or one outcome per block
ToolRuns(n) ==
    { [raised |-> "Exception", blocks |-> <<>>],
      [raised |-> "FileNotFoundError", blocks |-> <<>>] }
    \cup { [raised |-> "no", blocks |-> b] : b \in [1..n -> BlockOutcomes] }

RECURSIVE Stdout(_)
Stdout(blocks) ==
    IF blocks = <<>> THEN <<>> ELSE Head(blocks).lines \o Stdout(Tail(blocks))

\* the sum of int(line.split()[0]) over the lines holding `phrase`
RECURSIVE SumLines(_, _)
SumLines(stdout, phrase) ==
    IF stdout = <<>> THEN 0
    ELSE (IF Head(stdout).text = phrase /\ Head(stdout).numeric
          THEN Head(stdout).n ELSE 0)
         + SumLines(Tail(stdout), phrase)

BatchResult(success, error_count, wrote, ran, lines) ==
    [success |-> success, errors |-> error_count, exits |-> FALSE,
     wrote_argfile |-> wrote, ran_tool |-> ran, lines |-> lines]

\* sys.exit(1) in place of a return: the argfile is written, the tool is not
\* there
BatchExit ==
    [success |-> 0, errors |-> 0, exits |-> TRUE,
     wrote_argfile |-> TRUE, ran_tool |-> FALSE, lines |-> <<>>]

\* variant without the dry-run return
batch_set_timestamps_nodry(files_and_times, dry, run) ==
    IF files_and_times = <<>> THEN BatchResult(0, 0, FALSE, FALSE, <<>>)
    ELSE IF run.raised = "FileNotFoundError" THEN BatchExit
    ELSE IF run.raised = "Exception"
    THEN BatchResult(0, Len(files_and_times), FALSE, FALSE, <<>>)
    ELSE LET stdout    == Stdout(run.blocks)
             updated   == SumLines(stdout, "image files updated")
             unchanged == SumLines(stdout, "image files unchanged")
         IN  BatchResult(updated + unchanged,
                         Len(files_and_times) - (updated + unchanged),
                         TRUE, TRUE, argfile_lines(files_and_times))

\* (success_count, error_count), and what the call did: whether it wrote an
\* argfile, whether it ran the tool, and the argfile's lines
batch_set_timestamps(files_and_times, dry, run) ==
    IF files_and_times = <<>> THEN BatchResult(0, 0, FALSE, FALSE, <<>>)
    ELSE IF dry THEN BatchResult(Len(files_and_times), 0, FALSE, FALSE, <<>>)
    ELSE IF run.raised = "FileNotFoundError" THEN BatchExit
    ELSE IF run.raised = "Exception"
    THEN BatchResult(0, Len(files_and_times), FALSE, FALSE, <<>>)
    ELSE LET stdout      == Stdout(run.blocks)
             updated     == SumLines(stdout, "image files updated")
             unchanged   == SumLines(stdout, "image files unchanged")
             total       == Len(files_and_times)
             accounted   == updated + unchanged
             error_count == total - accounted
         IN  BatchResult(updated + unchanged, error_count,
                         TRUE, TRUE, argfile_lines(files_and_times))

\* what the tool does with an argfile: options accumulate until -execute, so
\* every file of a block gets the block's last -FileModifyDate, and block b
\* acts when its outcome says so.  fs maps a file name to the source copied
\* there and the timestamp last written to it.
ExiftoolApply(fs, lines, blocks) ==
    LET BlockOf(j) == 1 + Cardinality({k \in 1..(j-1) : lines[k].text = "-execute"})
        DateLines(j) == {k \in 1..Len(lines) :
                            /\ lines[k].text = "-FileModifyDate="
                            /\ BlockOf(k) = BlockOf(j)}
        LastDate(j) == CHOOSE k \in DateLines(j) : \A m \in DateLines(j) : m <= k
        Writes(name) == {j \in 1..Len(lines) :
                            /\ lines[j].text = "file"
                            /\ lines[j].path.name = name
                            /\ DateLines(j) # {}
                            /\ BlockOf(j) \in DOMAIN blocks
                            /\ blocks[BlockOf(j)].written}
        LastWrite(name) == CHOOSE j \in Writes(name) : \A m \in Writes(name) : m <= j
    IN  [name \in DOMAIN fs |->
            IF Writes(name) = {} THEN fs[name]
            ELSE [src |-> fs[name].src, dt |-> lines[LastDate(LastWrite(name))].dt]]

(***************************************************************************)
(* find_albums                                                             *)
(***************************************************************************)
\* what iterdir() of the input directory can yield: entries with distinct
\* names (numbers, ordered as the paths are), each with the properties
\* find_albums looks at
DirListings ==
    UNION { { [k \in 1..Len(names) |->
                 [name |-> names[k], is_dir |-> a[k].is_dir, hidden |-> a[k].hidden,
                  has_files |-> a[k].has_files, has_metadata |-> a[k].has_metadata]] :
              a \in [1..Len(names) ->
                        [is_dir : BOOLEAN, hidden : BOOLEAN,
                         has_files : BOOLEAN, has_metadata : BOOLEAN]] } :
            names \in SeqsDistinct(1..MaxAlbums, MaxAlbums) }

LooksLikeAlbum(item) ==
    item.is_dir /\ ~item.hidden /\ (item.has_files \/ item.has_metadata)

NameOrder(a, b) == a < b

find_albums(listing) ==
    LET found == SelectSeq(listing, LooksLikeAlbum)
    IN  SortSeq([k \in 1..Len(found) |-> found[k].name], NameOrder)

(***************************************************************************)
(* State                                                                   *)
(***************************************************************************)
VARIABLES
    pc,                   \* where the run is
    dry_run,              \* args.dry_run
    exiftool_installed,   \* whether the external tool can be started
    albums,               \* main: the sorted album list
    album_idx,            \* main: position of the for loop over albums
    ret,                  \* main: what the last process_album call returned
    total_processed, total_skipped, total_errors, total_renamed,
    exit_status,          \* -1 while running
    media_files,          \* process_album locals
    file_types,
    files_to_process,
    files_for_timestamps,
    idx,                  \* position of the current for loop of process_album
    skipped, errors, renamed,
    dirs_created,         \* file system: directories made (0 is output_path)
    out_fs,               \* file system: the current album's output directory,
                          \* file name -> source copied there, timestamp written
    argfiles_written,     \* argfiles written for this album
    detect_calls,         \* detection subprocesses started for this album
    ts_calls,             \* timestamp subprocesses started for this album
    n_media,              \* media files found in this album
    own_ts,               \* source name -> timestamp of its own sidecar
    sidecar_errors,       \* sidecars of this album that could not be read
    any_failed,           \* some file of the run failed
    done_albums,          \* albums process_album was called for, in order
    call                  \* a pure function's call, in the function specifications

mainVars == <<albums, album_idx, ret, total_processed, total_skipped,
              total_errors, total_renamed, exit_status>>

albumVars == <<media_files, file_types, files_to_process, files_for_timestamps,
               idx, skipped, errors, renamed>>

worldVars == <<dirs_created, out_fs, argfiles_written>>

ghostVars == <<detect_calls, ts_calls, n_media, own_ts, sidecar_errors,
               any_failed, done_albums>>

vars == <<pc, dry_run, exiftool_installed, mainVars, albumVars, worldVars,
          ghostVars, call>>

NoRet == [processed |-> 0, skipped |-> 0, errors |-> 0, renamed |-> 0]

NoCall == [fn |-> "none"]

\* the locals of process_album before the call and after the return
NoFrame ==
    /\ media_files = <<>> /\ file_types = EmptyMap
    /\ files_to_process = <<>> /\ files_for_timestamps = <<>>
    /\ idx = 0 /\ skipped = 0 /\ errors = 0 /\ renamed = 0

\* everything but pc, dry_run, exiftool_installed and call, before main runs
Blank ==
    /\ albums = <<>> /\ album_idx = 0 /\ ret = NoRet
    /\ total_processed = 0 /\ total_skipped = 0
    /\ total_errors = 0 /\ total_renamed = 0
    /\ exit_status = -1
    /\ NoFrame
    /\ dirs_created = {} /\ out_fs = EmptyMap /\ argfiles_written = 0
    /\ detect_calls = 0 /\ ts_calls = 0 /\ n_media = 0
    /\ own_ts = EmptyMap /\ sidecar_errors = 0
    /\ any_failed = FALSE /\ done_albums = <<>>

Init ==
    /\ pc = "main"
    /\ dry_run \in BOOLEAN
    /\ exiftool_installed \in BOOLEAN
    /\ call = NoCall
    /\ Blank

(***************************************************************************)
(* main                                                                    *)
(***************************************************************************)
\* sys.exit(1) before the summary
Exit ==
    /\ pc' = "exit"
    /\ exit_status' = 1

\* an exception nobody catches: traceback, status 1
Crash ==
    /\ pc' = "crashed"
    /\ exit_status' = 1

\* main up to the loop: check the input directory, find the albums, make the
\* output directory
Main ==
    /\ pc = "main"
    /\ \E input \in {"missing", "notdir", "dir"}, listing \in DirListings :
          IF input # "dir" \/ find_albums(listing) = <<>>
          THEN /\ Exit
               /\ UNCHANGED <<albums, album_idx, dirs_created>>
          ELSE /\ albums' = find_albums(listing)
               /\ album_idx' = 1
               /\ dirs_created' = IF dry_run THEN {} ELSE {0}
               /\ pc' = "loop"
               /\ UNCHANGED exit_status
    /\ UNCHANGED <<dry_run, exiftool_installed, ret, total_processed,
                   total_skipped, total_errors, total_renamed, albumVars,
                   out_fs, argfiles_written, ghostVars, call>>

\* the locals of process_album go with its frame
PopFrame ==
    /\ media_files' = <<>> /\ file_types' = EmptyMap
    /\ files_to_process' = <<>> /\ files_for_timestamps' = <<>>
    /\ idx' = 0 /\ skipped' = 0 /\ errors' = 0 /\ renamed' = 0

\* process_album returns to the loop of main, which adds up the counts
ReturnAlbum(p, s, e, r) ==
    /\ ret' = [processed |-> p, skipped |-> s, errors |-> e, renamed |-> r]
    /\ total_processed' = total_processed + p
    /\ total_skipped' = total_skipped + s
    /\ total_errors' = total_errors + e
    /\ total_renamed' = total_renamed + r
    /\ album_idx' = album_idx + 1
    /\ pc' = "loop"
    /\ PopFrame

\* the summary and the exit status
Summary ==
    /\ pc = "loop"
    /\ album_idx > Len(albums)
    /\ pc' = "done"
    /\ exit_status' = IF total_errors > 0 THEN 1 ELSE 0
    /\ UNCHANGED <<dry_run, exiftool_installed, albums, album_idx, ret,
                   total_processed, total_skipped, total_errors, total_renamed,
                   albumVars, worldVars, ghostVars, call>>

(***************************************************************************)
(* process_album                                                           *)
(***************************************************************************)
IsMedia(item) ==
    /\ item.name # MetadataName
    /\ item.name # DSStoreName
    /\ ~item.is_dir

\* the media files of an album, in iterdir() order
CollectMedia(items) ==
    LET kept == SelectSeq(items, IsMedia)
    IN  [k \in 1..Len(kept) |-> kept[k].name]

\* the call and the collection of the media files
ProcessAlbum ==
    /\ pc = "loop"
    /\ album_idx <= Len(albums)
    /\ \E items \in SeqsDistinct(ItemPool, MaxItems) :
          /\ n_media' = Len(CollectMedia(items))
          /\ IF CollectMedia(items) = <<>>
             THEN /\ ReturnAlbum(0, 0, 0, 0)
             ELSE /\ pc' = "detect"
                  /\ media_files' = CollectMedia(items)
                  /\ UNCHANGED <<ret, total_processed, total_skipped,
                                 total_errors, total_renamed, album_idx,
                                 file_types, files_to_process,
                                 files_for_timestamps, idx, skipped, errors,
                                 renamed>>
    /\ out_fs' = EmptyMap /\ argfiles_written' = 0
    /\ detect_calls' = 0 /\ ts_calls' = 0
    /\ own_ts' = EmptyMap /\ sidecar_errors' = 0
    /\ done_albums' = Append(done_albums, albums[album_idx])
    /\ UNCHANGED <<dry_run, exiftool_installed, albums, exit_status,
                   dirs_created, any_failed, call>>

\* step 1: one detection subprocess for all files, then the output directory
DetectTypes ==
    /\ pc = "detect"
    /\ detect_calls' = detect_calls + 1
    /\ IF ~exiftool_installed
       THEN /\ Exit                          \* FileNotFoundError
            /\ UNCHANGED <<file_types, idx, dirs_created>>
       ELSE /\ \E run \in DetectRuns(media_files) :
                  file_types' = batch_detect_file_types(media_files, run)
            /\ dirs_created' = IF dry_run THEN dirs_created
                               ELSE dirs_created \cup {albums[album_idx]}
            /\ idx' = 1
            /\ pc' = "read"
            /\ UNCHANGED exit_status
    /\ UNCHANGED <<dry_run, exiftool_installed, albums, album_idx, ret,
                   total_processed, total_skipped, total_errors, total_renamed,
                   media_files, files_to_process, files_for_timestamps,
                   skipped, errors, renamed, out_fs, argfiles_written,
                   ts_calls, n_media, own_ts, sidecar_errors, any_failed,
                   done_albums, call>>

\* step 2, one file: read its sidecar, parse the timestamp, correct the name
ReadMetadata ==
    /\ pc = "read"
    /\ idx <= Len(media_files)
    /\ idx' = idx + 1
    /\ \E sidecar \in SidecarPool :
          LET media_file == media_files[idx]
              timestamp  == parse_timestamp(sidecar.metadata)
              fixed      == get_corrected_filename(media_file,
                                                   DictGet(file_types, media_file))
          IN  CASE sidecar.state = "missing" ->
                      /\ skipped' = skipped + 1
                      /\ UNCHANGED <<pc, exit_status, errors, renamed,
                                     files_to_process, own_ts, sidecar_errors,
                                     any_failed>>
                [] sidecar.state \in {"ioerror", "jsonerror"} ->
                      /\ errors' = errors + 1
                      /\ sidecar_errors' = sidecar_errors + 1
                      /\ any_failed' = TRUE
                      /\ UNCHANGED <<pc, exit_status, skipped, renamed,
                                     files_to_process, own_ts>>
                [] sidecar.state = "decodeerror" ->
                      \* UnicodeDecodeError is neither JSONDecodeError nor IOError
                      /\ Crash
                      /\ sidecar_errors' = sidecar_errors + 1
                      /\ any_failed' = TRUE
                      /\ UNCHANGED <<skipped, errors, renamed,
                                     files_to_process, own_ts>>
                [] OTHER ->
                      CASE timestamp.tag = "raise" ->
                              /\ Crash
                              /\ UNCHANGED <<skipped, errors, renamed,
                                             files_to_process, own_ts,
                                             sidecar_errors, any_failed>>
                        [] timestamp.tag = "none" ->
                              /\ skipped' = skipped + 1
                              /\ UNCHANGED <<pc, exit_status, errors, renamed,
                                             files_to_process, own_ts,
                                             sidecar_errors, any_failed>>
                        [] OTHER ->
                              /\ renamed' = IF fixed.corrected
                                            THEN renamed + 1 ELSE renamed
                              /\ files_to_process' =
                                    Append(files_to_process,
                                           [src |-> media_file,
                                            dst |-> fixed.name,
                                            dt  |-> timestamp.dt])
                              /\ own_ts' = (media_file :> timestamp.dt) @@ own_ts
                              /\ UNCHANGED <<pc, exit_status, skipped, errors,
                                             sidecar_errors, any_failed>>
    /\ UNCHANGED <<dry_run, exiftool_installed, albums, album_idx, ret,
                   total_processed, total_skipped, total_errors, total_renamed,
                   media_files, file_types, files_for_timestamps,
                   worldVars, detect_calls, ts_calls, n_media,
                   done_albums, call>>

\* the end of step 2: return when nothing is left to copy
EndRead ==
    /\ pc = "read"
    /\ idx > Len(media_files)
    /\ IF files_to_process = <<>>
       THEN ReturnAlbum(0, skipped, errors, renamed)
       ELSE /\ pc' = "copy"
            /\ idx' = 1
            /\ UNCHANGED <<ret, total_processed, total_skipped, total_errors,
                           total_renamed, album_idx, media_files, file_types,
                           files_to_process, files_for_timestamps,
                           skipped, errors, renamed>>
    /\ UNCHANGED <<dry_run, exiftool_installed, albums, exit_status,
                   worldVars, ghostVars, call>>

OutPath(name) == [root |-> "output", name |-> name]

\* variant that runs the timestamp tool on each file right after its copy
CopyFile_stamp_each ==
    /\ pc = "copy"
    /\ idx <= Len(files_to_process)
    /\ idx' = idx + 1
    /\ LET f     == files_to_process[idx]
           entry == [path |-> OutPath(f.dst), dt |-> f.dt]
       IN  IF dry_run
           THEN /\ files_for_timestamps' = Append(files_for_timestamps, entry)
                /\ UNCHANGED <<errors, out_fs, any_failed, ts_calls>>
           ELSE /\ out_fs' = (f.dst :> [src |-> f.src, dt |-> NoDt]) @@ out_fs
                /\ files_for_timestamps' = Append(files_for_timestamps, entry)
                /\ ts_calls' = ts_calls + 1
                /\ UNCHANGED <<errors, any_failed>>
    /\ UNCHANGED <<pc, dry_run, exiftool_installed, mainVars, media_files,
                   file_types, files_to_process, skipped, renamed,
                   dirs_created, argfiles_written, detect_calls, n_media,
                   own_ts, sidecar_errors, done_albums, call>>

\* step 3, one file: copy it (not in a dry run) and queue it for step 4
CopyFile ==
    /\ pc = "copy"
    /\ idx <= Len(files_to_process)
    /\ idx' = idx + 1
    /\ LET f     == files_to_process[idx]
           entry == [path |-> OutPath(f.dst), dt |-> f.dt]
       IN  IF dry_run
           THEN /\ files_for_timestamps' = Append(files_for_timestamps, entry)
                /\ UNCHANGED <<errors, out_fs, any_failed>>
           ELSE \E copied \in BOOLEAN :
                   IF copied
                   THEN /\ out_fs' = (f.dst :> [src |-> f.src, dt |-> NoDt])
                                     @@ out_fs
                        /\ files_for_timestamps' =
                              Append(files_for_timestamps, entry)
                        /\ UNCHANGED <<errors, any_failed>>
                   ELSE /\ errors' = errors + 1               \* IOError
                        /\ any_failed' = TRUE
                        /\ UNCHANGED <<out_fs, files_for_timestamps>>
    /\ UNCHANGED <<pc, dry_run, exiftool_installed, mainVars, media_files,
                   file_types, files_to_process, skipped, renamed,
                   dirs_created, argfiles_written, detect_calls, ts_calls,
                   n_media, own_ts, sidecar_errors, done_albums, call>>

\* step 4: one timestamp subprocess for the whole album, and the return
SetTimestamps ==
    /\ pc = "copy"
    /\ idx > Len(files_to_process)
    /\ IF files_for_timestamps = <<>>
       THEN /\ ReturnAlbum(0, skipped, errors, renamed)
            /\ UNCHANGED <<exit_status, out_fs, argfiles_written, ts_calls,
                           any_failed>>
       ELSE \E run \in ToolRuns(Len(files_for_timestamps)) :
               LET res == batch_set_timestamps(files_for_timestamps, dry_run, run)
               IN  /\ (run.raised = "FileNotFoundError") = ~exiftool_installed
                   /\ IF res.exits
                      THEN /\ Exit
                           /\ UNCHANGED <<ret, total_processed, total_skipped,
                                          total_errors, total_renamed,
                                          album_idx, albumVars>>
                      ELSE /\ ReturnAlbum(res.success, skipped,
                                          errors + res.errors, renamed)
                           /\ UNCHANGED exit_status
                   /\ argfiles_written' = IF res.wrote_argfile
                                          THEN argfiles_written + 1
                                          ELSE argfiles_written
                   /\ ts_calls' = IF res.ran_tool THEN ts_calls + 1 ELSE ts_calls
                   /\ out_fs' = IF res.ran_tool
                                THEN ExiftoolApply(out_fs, res.lines, run.blocks)
                                ELSE out_fs
                   /\ any_failed' =
                         \/ any_failed
                         \/ /\ ~dry_run
                            /\ \/ run.raised # "no"
                               \/ \E k \in 1..Len(run.blocks) :
                                     ~run.blocks[k].confirmed
    /\ UNCHANGED <<dry_run, exiftool_installed, albums,
                   dirs_created, detect_calls, n_media, own_ts, sidecar_errors,
                   done_albums, call>>

Next ==
    \/ Main
    \/ ProcessAlbum
    \/ DetectTypes
    \/ ReadMetadata
    \/ EndRead
    \/ CopyFile
    \/ SetTimestamps
    \/ Summary

Spec == Init /\ [][Next]_vars

(***************************************************************************)
(* The functions on their own: a call with its arguments drawn from the    *)
(* pools, then the function applied                                        *)
(***************************************************************************)
runVars == <<pc, dry_run, exiftool_installed, mainVars, albumVars, worldVars,
             ghostVars>>

\* no run of main is under way
NoRun ==
    /\ pc = "call"
    /\ dry_run = FALSE
    /\ exiftool_installed = TRUE
    /\ Blank

Range(f) == { f[k] : k \in DOMAIN f }

\* str.upper()
Upper(s) ==
    [k \in 1..Len(s) |->
        IF \E j \in 1..Len(LowerChars) : LowerChars[j] = s[k]
        THEN UpperChars[CHOOSE j \in 1..Len(LowerChars) : LowerChars[j] = s[k]]
        ELSE s[k]]

\* the extension as written, in capitals, and with a capital first letter
Spellings(ext) ==
    { ext, Upper(ext) }
    \cup (IF Len(ext) >= 2
          THEN { SubSeq(ext, 1, 1) \o Upper(SubSeq(ext, 2, 2))
                 \o SubSeq(ext, 3, Len(ext)) }
          ELSE {})

ExtInputs ==
    UNION { Spellings(e) : e \in Range(FILETYPE_TO_EXT) \cup DOMAIN EXT_ALIASES }
    \cup { <<>>, <<".">>, <<".","t","x","t">> }

StemInputs == { <<"a">>, <<"a",".","b">>, <<".","a">>, <<"a",".">> }

NameInputs == { st \o e : st \in StemInputs, e \in ExtInputs }

\* what file_types.get() can hand to get_corrected_filename
DetectedInputs == {None} \cup Range(FILETYPE_TO_EXT)

NoFix == [name |-> <<>>, corrected |-> FALSE]

InitName ==
    /\ NoRun
    /\ call \in { [fn |-> "get_corrected_filename", name |-> n, detected_ext |-> d,
                   step |-> 0, first |-> NoFix, second |-> NoFix] :
                  n \in NameInputs, d \in DetectedInputs }

\* get_corrected_filename(name, detected_ext)
CallName ==
    /\ call.fn = "get_corrected_filename"
    /\ call.step = 0
    /\ call' = [call EXCEPT !.step = 1,
                  !.first = get_corrected_filename(call.name, call.detected_ext)]
    /\ UNCHANGED runVars

\* the same on the name the first call returned
CallNameAgain ==
    /\ call.fn = "get_corrected_filename"
    /\ call.step = 1
    /\ call' = [call EXCEPT !.step = 2,
                  !.second = get_corrected_filename(call.first.name,
                                                    call.detected_ext)]
    /\ UNCHANGED runVars

NextName == CallName \/ CallNameAgain

SpecName == InitName /\ [][NextName]_vars

Pending == [tag |-> "pending"]

InitTs ==
    /\ NoRun
    /\ call \in { [fn |-> "parse_timestamp", metadata |-> m, done |-> FALSE,
                   result |-> Pending] : m \in MetaPool }

\* parse_timestamp(metadata)
CallTs ==
    /\ call.fn = "parse_timestamp"
    /\ ~call.done
    /\ call' = [call EXCEPT !.done = TRUE,
                            !.result = parse_timestamp(call.metadata)]
    /\ UNCHANGED runVars

NextTs == CallTs

SpecTs == InitTs /\ [][NextTs]_vars

\* files in one batch
MaxBatch == 2

BatchEntries ==
    { [path |-> OutPath(n), dt |-> fromtimestamp(Small(t)).dt] :
        n \in MediaNames, t \in TsPool }

BatchInputs ==
    UNION { [1..k -> BatchEntries] : k \in 0..MaxBatch }

InitBatch ==
    /\ NoRun
    /\ call \in { [fn |-> "batch_set_timestamps", files |-> f, dry |-> d,
                   run |-> r, done |-> FALSE,
                   result |-> BatchResult(0, 0, FALSE, FALSE, <<>>)] :
                  f \in BatchInputs, d \in BOOLEAN,
                  r \in UNION { ToolRuns(k) : k \in 0..MaxBatch } }
    /\ call.run.raised # "no" \/ Len(call.run.blocks) = Len(call.files)

\* batch_set_timestamps(files_and_times, dry_run)
CallBatch ==
    /\ call.fn = "batch_set_timestamps"
    /\ ~call.done
    /\ call' = [call EXCEPT !.done = TRUE,
                  !.result = batch_set_timestamps(call.files, call.dry, call.run)]
    /\ UNCHANGED runVars

NextBatch == CallBatch

SpecBatch == InitBatch /\ [][NextBatch]_vars

(***************************************************************************)
(* Properties                                                              *)
(***************************************************************************)

\* C1: for an album with media files the detection subprocess is started
\* exactly once, before any file is copied, and the timestamp subprocess at
\* most once, after the last copy; an album costs at most two subprocesses
\* however many files it has.
C1_TwoSubprocessesPerAlbum ==
    /\ detect_calls + ts_calls <= 2
    /\ detect_calls <= 1
    /\ ts_calls <= 1
    /\ pc = "detect" => detect_calls = 0 /\ ts_calls = 0 /\ out_fs = EmptyMap
    /\ pc \in {"read", "copy"} => detect_calls = 1 /\ ts_calls = 0
    /\ pc = "read" => out_fs = EmptyMap
    /\ (pc \in {"loop", "done"} /\ n_media > 0) => detect_calls = 1
    /\ n_media = 0 => detect_calls = 0 /\ ts_calls = 0

\* an album of two files returned after both subprocesses and two copies
C1_Witness ==
    /\ pc = "loop"
    /\ n_media = 2
    /\ Cardinality(DOMAIN out_fs) = 2
    /\ detect_calls = 1
    /\ ts_calls = 1

\* the aliases as the claim lists them
C2_Alias(ext) ==
    CASE ext = <<".","j","p","e","g">> -> <<".","j","p","g">>
      [] ext = <<".","j","p","e">>     -> <<".","j","p","g">>
      [] ext = <<".","m","4","v">>     -> <<".","m","p","4">>
      [] ext = <<".","h","e","i","f">> -> <<".","h","e","i","c">>
      [] ext = <<".","t","i","f">>     -> <<".","t","i","f","f">>
      [] OTHER -> ext

\* C2: get_corrected_filename returns (name, False) when the detected
\* extension is None or equals the lower-cased current extension after alias
\* normalisation, and (stem + detected extension, True) otherwise; applied
\* again to the corrected name with the same detected extension it reports
\* no correction.
C2_CorrectedFilename ==
    (call.fn = "get_corrected_filename" /\ call.step >= 1) =>
        LET n == call.name
            d == call.detected_ext
            same == d = None \/ C2_Alias(Lower(Suffix(n))) = C2_Alias(d)
        IN  /\ same => call.first = [name |-> n, corrected |-> FALSE]
            /\ ~same => call.first = [name |-> Stem(n) \o d, corrected |-> TRUE]
            /\ call.step = 2 =>
                  call.second = [name |-> call.first.name, corrected |-> FALSE]

\* an aliased, capitalised extension left alone, and a corrected name applied
\* again
C2_Witness ==
    /\ call.fn = "get_corrected_filename"
    /\ call.step = 2
    /\ call.first.corrected
    /\ Lower(Suffix(call.name)) \in DOMAIN EXT_ALIASES
    /\ Suffix(call.name) # Lower(Suffix(call.name))

\* the member `key` of a sidecar object holds a timestamp int() accepts
C3_IntConvertible(m, key) ==
    /\ m.kind = "dict"
    /\ key \in DOMAIN m.fields
    /\ m.fields[key].kind = "dict"
    /\ "timestamp" \in DOMAIN m.fields[key].fields
    /\ ToInt(m.fields[key].fields["timestamp"]).tag = "ok"

\* what datetime.fromtimestamp makes of that timestamp
C3_TimeOf(m, key) == fromtimestamp(ToInt(m.fields[key].fields["timestamp"]).v)

\* the member holds a timestamp that int() and fromtimestamp both accept
C3_Valid(m, key) ==
    C3_IntConvertible(m, key) /\ C3_TimeOf(m, key).tag = "ok"

\* trying the member raises an exception parse_timestamp does not catch
C3_Raises(m, key) ==
    \/ m.kind = "scalar"
    \/ /\ m.kind = "dict"
       /\ key \in DOMAIN m.fields
       /\ m.fields[key].kind = "dict"
       /\ "timestamp" \in DOMAIN m.fields[key].fields
       /\ \/ ToInt(m.fields[key].fields["timestamp"]).tag = "OverflowError"
          \/ /\ C3_IntConvertible(m, key)
             /\ C3_TimeOf(m, key).tag = "OverflowError"

C4_DryRunChangesNothing ==
    dry_run =>
        /\ dirs_created = {}
        /\ out_fs = EmptyMap
        /\ argfiles_written = 0
        /\ ts_calls = 0
        /\ pc \in {"loop", "done"} =>
              /\ ret.processed = Cardinality(DOMAIN own_ts)
              /\ ret.errors = sidecar_errors

\* a dry run of an album with one good file and one unreadable sidecar
C4_Witness ==
    /\ dry_run
    /\ pc = "done"
    /\ n_media = 2
    /\ ret.processed = 1
    /\ sidecar_errors = 1

\* C5: for a non-empty batch, success_count + error_count is the batch size,
\* success_count is the sum of the leading integers of the "image files
\* updated" and "image files unchanged" lines, and neither count is negative.
C5_PerFileCounts ==
    (call.fn = "batch_set_timestamps" /\ call.done /\ call.files # <<>>
     /\ ~call.result.exits) =>
        LET r == call.result
        IN  /\ r.success + r.errors = Len(call.files)
            /\ r.ran_tool =>
                  r.success = SumLines(Stdout(call.run.blocks), "image files updated")
                              + SumLines(Stdout(call.run.blocks),
                                         "image files unchanged")
            /\ r.success >= 0
            /\ r.errors >= 0

\* C6: a run that reaches the summary exits with status 1 when some file
\* failed and with status 0 when none did.
C6_ExitStatusTellsFailure ==
    pc = "done" => exit_status = (IF any_failed THEN 1 ELSE 0)

IsPrefix(a, b) == Len(a) <= Len(b) /\ a = SubSeq(b, 1, Len(a))

\* C7: with the external tool installed no file's failure ends the run: the
\* albums are processed once each in sorted order and the run gets to the
\* summary rather than being aborted.
C7_NoFileAbortsTheRun ==
    exiftool_installed =>
        /\ pc # "crashed"
        /\ pc = "exit" => albums = <<>>
        /\ IsPrefix(done_albums, albums)
        /\ pc = "done" => done_albums = albums

\* C8: in a real run the batch holds exactly the copied output files, all
\* under the output directory, and the timestamp an output file carries
\* after the batch is the one of the sidecar of the source it was copied from.
C8_OwnTimestampOnly ==
    ~dry_run =>
        /\ \A k \in 1..Len(files_for_timestamps) :
              /\ files_for_timestamps[k].path.root = "output"
              /\ files_for_timestamps[k].path.name \in DOMAIN out_fs
        /\ pc = "copy" =>
              DOMAIN out_fs = { files_for_timestamps[k].path.name :
                                  k \in 1..Len(files_for_timestamps) }
        /\ \A n \in DOMAIN out_fs :
              out_fs[n].dt # NoDt =>
                 out_fs[n].dt = format_exif_datetime(own_ts[out_fs[n].src])

====
